---- MODULE Spec2Model ----
(***************************************************************************)
(* Model of the text tools of the Google Docs MCP server:                  *)
(*   find_and_replace, search_text_in_document, get_word_count             *)
(*              (src/tools/search.ts, found in src/src/tools/media.ts)     *)
(*   search_documents, read_document (src/tools/read.ts, two revisions)    *)
(*   create_document, create_formatted_document   (src/tools/create.ts)    *)
(*   resize_image                   (src/tools/media.ts, two revisions)    *)
(*   sanitizeSearchQuery, validateDocumentId, validateIndex, validateTitle *)
(*                                  (src/utils/validation.ts)              *)
(*   transform_text_case, create_bulleted_list, create_numbered_list       *)
(*                                  (src/tools/format.ts)                  *)
(*   the start-up block, check_auth_status, getAuthClient                  *)
(*                                  (src/index.ts, src/auth.ts)            *)
(*                                                                         *)
(* A document is a sequence of cells, one per document index, starting at  *)
(* index 0.  A cell is a text character, the section break "SB" that       *)
(* occupies index 0 of every body, or an inline object "OBJ" that occupies *)
(* one index and carries no text.  Strings are sequences of characters; a  *)
(* character is a one-element token such as "a", "A" or "I" (U+0130, whose *)
(* lower case is the two code units "i" and "dot").                        *)
(***************************************************************************)
EXTENDS Integers, Sequences, FiniteSets, TLC

\* ---------------------------------------------------------------- bounds
MaxBody == 3        \* cells of a body between the section break and the final newline
MaxFind == 2        \* length of findText / searchText
MaxReplace == 2     \* length of replaceText
MaxResultsArg == 2  \* largest explicit maxResults
MaxQuery == 3       \* length of the search_documents query
MaxRuns == 2        \* runs of a run-length encoded document id or title
MaxHeading == 1     \* length of the heading of create_formatted_document
MaxBodyText == 3    \* length of the body of create_formatted_document
MaxItems == 2       \* items of a list
MaxItemLen == 2     \* length of a list item
MaxCalls == 2       \* tool calls a client makes while the server starts

\* ------------------------------------------------------- program constants
DefaultMaxResults == 10
MinIdLength == 10
MaxIdLength == 100
MaxTitleLength == 255
MaxIndex == 1000000

\* ------------------------------------------------------------- characters
BodyCells == {"a", "A", "I", "OBJ"}
FindChars == {"a", "I"}
ReplaceChars == {"b"}
QueryChars == {"'", "\\", "x", "<", ">", "*", " ", "NUL", "e", "acute"}
ExtractCells == {"a", "OBJ", "NOCONTENT"}
ImageCells == {"a", "OBJ"}
IdChars == {"a", "Z", "7", "_", "-", "/"}
TitleChars == {"t"}
BodyTextChars == {"x", " ", "tab"}

SeqsUpTo(S, n) == UNION {[1..k -> S] : k \in 0..n}

Min(a, b) == IF a < b THEN a ELSE b
Max(a, b) == IF a > b THEN a ELSE b

\* String.prototype.substring(a, b) for a <= b: both ends clamped to [0, length]
Substring(s, a, b) == SubSeq(s, Max(a, 0) + 1, Min(b, Len(s)))

RECURSIVE Flatten(_)
Flatten(ss) == IF ss = <<>> THEN <<>> ELSE Head(ss) \o Flatten(Tail(ss))

\* String.prototype.toLowerCase: per character, "A" -> "a", "I" (U+0130) -> "i" "dot"
LowerChar(c) ==
    CASE c = "A" -> <<"a">>
      [] c = "I" -> <<"i", "dot">>
      [] OTHER -> <<c>>

toLowerCase(s) == Flatten([i \in 1..Len(s) |-> LowerChar(s[i])])

\* String.prototype.indexOf(needle, from): 0-based, -1 when absent; an empty
\* needle is found at min(from, length)
indexOf(hay, needle, from) ==
    LET f == Min(Max(from, 0), Len(hay))
        hits == {k \in f..(Len(hay) - Len(needle)) :
                    SubSeq(hay, k + 1, k + Len(needle)) = needle}
    IN IF hits = {} THEN -1
       ELSE CHOOSE k \in hits : \A j \in hits : k <= j

\* ------------------------------------------------------ the document store
\* "NOCONTENT" is a paragraph element whose textRun carries no content
IsText(c) == c \notin {"SB", "OBJ", "NOCONTENT"}

\* the value of an absent textRun.content
Undefined == <<"undefined">>

\* inlineObjectId of an element that is no inline object
NoObjectId == 0

Docs == {<<"SB">> \o b \o <<"nl">> : b \in SeqsUpTo(BodyCells, MaxBody)}

\* end (exclusive document index) of the text run that starts at index i
RECURSIVE RunEnd(_, _)
RunEnd(d, i) ==
    IF i < Len(d) /\ IsText(d[i + 1]) THEN RunEnd(d, i + 1) ELSE i

\* paragraph.elements of the response of documents.get, from document index i on
RECURSIVE ParagraphElements(_, _)
ParagraphElements(d, i) ==
    IF i >= Len(d) THEN <<>>
    ELSE IF IsText(d[i + 1])
         THEN LET j == RunEnd(d, i)
              IN <<[startIndex |-> i, endIndex |-> j, textRun |-> TRUE,
                    content |-> SubSeq(d, i + 1, j),
                    inlineObjectId |-> NoObjectId]>> \o ParagraphElements(d, j)
         ELSE IF d[i + 1] = "NOCONTENT"
         THEN <<[startIndex |-> i, endIndex |-> i + 1, textRun |-> TRUE,
                 content |-> Undefined,
                 inlineObjectId |-> NoObjectId]>> \o ParagraphElements(d, i + 1)
         ELSE <<[startIndex |-> i, endIndex |-> i + 1, textRun |-> FALSE,
                 content |-> <<>>,
                 inlineObjectId |-> i]>> \o ParagraphElements(d, i + 1)

\* doc.data.body.content: the section break, then one paragraph
BodyContent(d) ==
    << [paragraph |-> FALSE, startIndex |-> 0, endIndex |-> 1, elements |-> <<>>],
       [paragraph |-> TRUE, startIndex |-> 1, endIndex |-> Len(d),
        elements |-> ParagraphElements(d, 1)] >>

\* content || ''
ContentOrEmpty(content) == IF content = Undefined THEN <<>> ELSE content

\* '' + content: an absent content is appended as the text "undefined"
ContentAsString(content) ==
    IF content = Undefined THEN <<"u", "n", "d", "e", "f", "i", "n", "e", "d">>
    ELSE content

\* the extraction loops: documentText += elem.textRun.content || ''
RECURSIVE ExtractElements(_)
ExtractElements(elems) ==
    IF elems = <<>> THEN <<>>
    ELSE (IF Head(elems).textRun THEN ContentOrEmpty(Head(elems).content) ELSE <<>>)
         \o ExtractElements(Tail(elems))

RECURSIVE ExtractText(_)
ExtractText(content) ==
    IF content = <<>> THEN <<>>
    ELSE (IF Head(content).paragraph THEN ExtractElements(Head(content).elements)
          ELSE <<>>)
         \o ExtractText(Tail(content))

\* read_document: textContent += paragraphElement.textRun.content
RECURSIVE ReadExtractElements(_)
ReadExtractElements(elems) ==
    IF elems = <<>> THEN <<>>
    ELSE (IF Head(elems).textRun THEN ContentAsString(Head(elems).content) ELSE <<>>)
         \o ReadExtractElements(Tail(elems))

RECURSIVE ReadExtractText(_)
ReadExtractText(content) ==
    IF content = <<>> THEN <<>>
    ELSE (IF Head(content).paragraph THEN ReadExtractElements(Head(content).elements)
          ELSE <<>>)
         \o ReadExtractText(Tail(content))

\* get_word_count: paragraphCount++ per paragraph element of the body
RECURSIVE ParagraphCount(_)
ParagraphCount(content) ==
    IF content = <<>> THEN 0
    ELSE (IF Head(content).paragraph THEN 1 ELSE 0) + ParagraphCount(Tail(content))

\* \s of the regular expressions and of String.prototype.trim
IsSpace(c) == c \in {" ", "tab", "nl"}

\* documentText.trim().split(/\s+/).filter(word => word.length > 0).length
WordCount(t) ==
    Cardinality({i \in 1..Len(t) : ~IsSpace(t[i]) /\ (i = 1 \/ IsSpace(t[i - 1]))})

\* ------------------------------------------------- documents.batchUpdate
DeleteContentRange(s, e) ==
    [kind |-> "deleteContentRange", startIndex |-> s, endIndex |-> e, text |-> <<>>]

InsertText(i, t) ==
    [kind |-> "insertText", startIndex |-> i, endIndex |-> i, text |-> t]

UpdateParagraphStyle(s, e) ==
    [kind |-> "updateParagraphStyle", startIndex |-> s, endIndex |-> e, text |-> <<>>]

UpdateTextStyle(s, e) ==
    [kind |-> "updateTextStyle", startIndex |-> s, endIndex |-> e, text |-> <<>>]

\* The store accepts a delete inside the body that spares the section break and
\* the final newline, an insert inside the paragraph, and a style update over
\* a non-empty range of the body.
RequestValid(d, r) ==
    CASE r.kind = "deleteContentRange" ->
            1 <= r.startIndex /\ r.startIndex < r.endIndex /\ r.endIndex <= Len(d) - 1
      [] r.kind = "insertText" ->
            1 <= r.startIndex /\ r.startIndex <= Len(d) - 1
      [] OTHER ->
            1 <= r.startIndex /\ r.startIndex < r.endIndex /\ r.endIndex <= Len(d)

\* a style update leaves the cells as they are
ApplyRequest(d, r) ==
    CASE r.kind = "deleteContentRange" ->
            SubSeq(d, 1, r.startIndex) \o SubSeq(d, r.endIndex + 1, Len(d))
      [] r.kind = "insertText" ->
            SubSeq(d, 1, r.startIndex) \o r.text \o SubSeq(d, r.startIndex + 1, Len(d))
      [] OTHER -> d

\* a document as documents.create returns it
EmptyDoc == <<"SB", "nl">>

\* ------------------------------------------------------- find_and_replace
RemoveAt(s, i) == SubSeq(s, 1, i - 1) \o SubSeq(s, i + 1, Len(s))

RECURSIVE MutSortAscending(_)
MutSortAscending(s) ==
    IF s = <<>> THEN <<>>
    ELSE LET i == CHOOSE i \in 1..Len(s) : \A j \in 1..Len(s) : s[i] <= s[j]
         IN <<s[i]>> \o MutSortAscending(RemoveAt(s, i))

\* matches.sort((a, b) => b - a)
RECURSIVE SortDescending(_)
SortDescending(s) ==
    IF s = <<>> THEN <<>>
    ELSE LET i == CHOOSE i \in 1..Len(s) : \A j \in 1..Len(s) : s[j] <= s[i]
         IN <<s[i]>> \o SortDescending(RemoveAt(s, i))

\* a planning loop that passes over a match at offset 0 without counting it
RECURSIVE MutPlanLoopDropsMatch(_, _, _, _, _, _)
MutPlanLoopDropsMatch(sortedMatches, ft, rt, ra, reqs, count) ==
    IF sortedMatches = <<>> \/ (~ra /\ count >= 1)
    THEN [requests |-> reqs, replacementsCount |-> count]
    ELSE LET matchIndex == Head(sortedMatches)
         IN IF matchIndex = 0
            THEN MutPlanLoopDropsMatch(Tail(sortedMatches), ft, rt, ra, reqs, count)
            ELSE MutPlanLoopDropsMatch(Tail(sortedMatches), ft, rt, ra,
                     reqs \o << DeleteContentRange(matchIndex, matchIndex + Len(ft)),
                                InsertText(matchIndex, rt) >>,
                     count + 1)

\* the loop over sortedMatches: break once one replacement is planned unless
\* replaceAll; otherwise push the delete, push the insert, count
RECURSIVE PlanLoop(_, _, _, _, _, _)
PlanLoop(sortedMatches, ft, rt, ra, reqs, count) ==
    IF sortedMatches = <<>> \/ (~ra /\ count >= 1)
    THEN [requests |-> reqs, replacementsCount |-> count]
    ELSE LET matchIndex == Head(sortedMatches)
         IN PlanLoop(Tail(sortedMatches), ft, rt, ra,
                     reqs \o << DeleteContentRange(matchIndex, matchIndex + Len(ft)),
                                InsertText(matchIndex, rt) >>,
                     count + 1)

\* index += searchText.length: where the scan resumes after a match at found
MutResumeAtNextChar(found, needle) == found + 1
ResumeIndex(found, needle) == found + Len(needle)

\* number of array elements the scanning loop can push before the process
\* runs out of memory; above every match count a non-empty needle can produce
HeapLimit == 2 * MaxBody + 2

\* maxResults || 10
ResultLimit(mr) == IF mr = 0 THEN DefaultMaxResults ELSE mr

\* ------------------------------------------------------- search_documents
\* String.prototype.trim() is non-empty
HasNonBlank(q) == \E i \in 1..Len(q) : q[i] # " "

\* query.replace(/'/g, "\\'")
RECURSIVE EscapeQuotes(_)
EscapeQuotes(q) ==
    IF q = <<>> THEN <<>>
    ELSE (IF Head(q) = "'" THEN <<"\\", "'">> ELSE <<Head(q)>>) \o EscapeQuotes(Tail(q))

\* s.replace(/[set]/g, '')
RECURSIVE RemoveChars(_, _)
RemoveChars(q, set) ==
    IF q = <<>> THEN <<>>
    ELSE (IF Head(q) \in set THEN <<>> ELSE <<Head(q)>>) \o RemoveChars(Tail(q), set)

\* text.normalize('NFC'): "e" followed by the combining acute composes
RECURSIVE NormalizeNFC(_)
NormalizeNFC(q) ==
    IF Len(q) < 2 THEN q
    ELSE IF q[1] = "e" /\ q[2] = "acute"
         THEN <<"eacute">> \o NormalizeNFC(SubSeq(q, 3, Len(q)))
         ELSE <<q[1]>> \o NormalizeNFC(Tail(q))

sanitizeText(text) == NormalizeNFC(RemoveChars(text, {"NUL"}))

sanitizeSearchQuery(q) == sanitizeText(RemoveChars(EscapeQuotes(q), {"<", ">"}))

BaseFilter == <<"mimeType='application/vnd.google-apps.document' and trashed=false">>
NameClause == " and name contains "

\* a composition that appends the name clause to every query
MutSearchQueryAlwaysNamed(q) ==
    BaseFilter \o <<NameClause, "'">> \o sanitizeSearchQuery(q) \o <<"'">>

\* searchQuery of part_006 (the query goes through sanitizeSearchQuery)
SearchQuerySanitized(q) ==
    IF q # <<>> /\ HasNonBlank(q) /\ q # <<"*">>
    THEN BaseFilter \o <<NameClause, "'">> \o sanitizeSearchQuery(q) \o <<"'">>
    ELSE BaseFilter

\* searchQuery of src/tools/read.ts (the query is interpolated as it is)
SearchQueryRaw(q) ==
    IF q # <<>> /\ HasNonBlank(q) /\ q # <<"*">>
    THEN BaseFilter \o <<NameClause, "'">> \o q \o <<"'">>
    ELSE BaseFilter

\* ------------------------------------------------------------- validation
\* A long string (a document id, a title) is a sequence of runs [ch, n], n
\* times the character ch; a value that is no string has a type and no runs.
IdRunLengths == {1, 9, 10, 90, 91}
TitleRunLengths == {1, 254, 255}

RECURSIVE StrLen(_)
StrLen(runs) == IF runs = <<>> THEN 0 ELSE Head(runs).n + StrLen(Tail(runs))

\* the same string with adjacent runs of one character merged
RECURSIVE Canon(_)
Canon(runs) ==
    IF Len(runs) < 2 THEN runs
    ELSE IF runs[1].ch = runs[2].ch
         THEN Canon(<<[ch |-> runs[1].ch, n |-> runs[1].n + runs[2].n]>>
                    \o SubSeq(runs, 3, Len(runs)))
         ELSE <<runs[1]>> \o Canon(Tail(runs))

StringValue(runs) == [type |-> "string", runs |-> runs]
OtherValue(t) == [type |-> t, runs |-> <<>>]

NoError == [name |-> "none", field |-> "none", message |-> "none", code |-> 0]

ValidationError(message, field) ==
    [name |-> "ValidationError", field |-> field, message |-> message, code |-> 0]

\* the error a failed API call rejects with
ApiError(code) == [name |-> "Error", field |-> "none", message |-> "api", code |-> code]

\* !documentId
Falsy(v) == v.type \in {"undefined", "null"} \/ (v.type = "string" /\ StrLen(v.runs) = 0)

\* one character against [a-zA-Z0-9_-]: "a" is a lower-case letter, "Z" an
\* upper-case letter, "7" a digit
IdCharOk(c) == c \in {"a", "Z", "7", "_", "-"}

\* a validateDocumentId whose length test excludes the bounds
MutValidateDocumentId(documentId) ==
    IF Falsy(documentId) \/ documentId.type # "string"
    THEN ValidationError("Document ID must be a non-empty string", "documentId")
    ELSE IF StrLen(documentId.runs) <= MinIdLength \/ StrLen(documentId.runs) >= MaxIdLength
    THEN ValidationError("Document ID has invalid length", "documentId")
    ELSE IF \E k \in 1..Len(documentId.runs) : ~IdCharOk(documentId.runs[k].ch)
    THEN ValidationError("Document ID contains invalid characters", "documentId")
    ELSE NoError

\* validateDocumentId: the error it throws, NoError when it returns
validateDocumentId(documentId) ==
    IF Falsy(documentId) \/ documentId.type # "string"
    THEN ValidationError("Document ID must be a non-empty string", "documentId")
    ELSE IF StrLen(documentId.runs) < MinIdLength \/ StrLen(documentId.runs) > MaxIdLength
    THEN ValidationError("Document ID has invalid length", "documentId")
    ELSE IF \E k \in 1..Len(documentId.runs) : ~IdCharOk(documentId.runs[k].ch)
    THEN ValidationError("Document ID contains invalid characters", "documentId")
    ELSE NoError

\* validateIndex on an integer
validateIndex(i, fieldName) ==
    IF i < 0 THEN ValidationError("Index must be non-negative", fieldName)
    ELSE IF i > MaxIndex THEN ValidationError("Index exceeds maximum document size", fieldName)
    ELSE NoError

validateTitle(t) ==
    IF t.type # "string" THEN ValidationError("Title must be a string", "title")
    ELSE IF StrLen(t.runs) = 0 THEN ValidationError("Title cannot be empty", "title")
    ELSE IF StrLen(t.runs) > MaxTitleLength
    THEN ValidationError("Title cannot exceed 255 characters", "title")
    ELSE NoError

\* the first error of a sequence of validations: the one that is thrown
RECURSIVE FirstError(_)
FirstError(errs) ==
    IF errs = <<>> THEN NoError
    ELSE IF Head(errs) # NoError THEN Head(errs)
    ELSE FirstError(Tail(errs))

\* the id of the one document the store holds
StoredId == <<[ch |-> "a", n |-> 10]>>

\* documents.get and documents.batchUpdate find the document
DocumentExists(id) == id.type = "string" /\ Canon(id.runs) = StoredId

\* ------------------------------------------- create_formatted_document
\* String.prototype.trim
RECURSIVE TrimLeft(_)
TrimLeft(t) == IF t # <<>> /\ IsSpace(Head(t)) THEN TrimLeft(Tail(t)) ELSE t

RECURSIVE TrimRight(_)
TrimRight(t) ==
    IF t # <<>> /\ IsSpace(t[Len(t)]) THEN TrimRight(SubSeq(t, 1, Len(t) - 1)) ELSE t

Trim(t) == TrimRight(TrimLeft(t))

\* body.split(' ')[0]
FirstWord(b) ==
    IF indexOf(b, <<" ">>, 0) = -1 THEN b ELSE Substring(b, 0, indexOf(b, <<" ">>, 0))

\* a condition that looks for the space only
MutBoldWhenSpace(b) == indexOf(b, <<" ">>, 0) # -1

\* body.trim() && body.includes(' ')
BoldFirstWord(b) == Trim(b) # <<>> /\ indexOf(b, <<" ">>, 0) # -1

\* the requests array of create_formatted_document
FormattedRequests(h, b) ==
    << InsertText(1, h \o <<"nl">>),
       UpdateParagraphStyle(1, Len(h) + 2),
       InsertText(Len(h) + 2, b \o <<"nl">>) >>
    \o (IF BoldFirstWord(b)
        THEN <<UpdateTextStyle(Len(h) + 2, Len(h) + 2 + Len(FirstWord(b)))>>
        ELSE <<>>)

\* ---------------------------------------------------- transform_text_case
\* String.prototype.substring(a, b): the ends are swapped when a > b
SubstringSwap(t, a, b) == Substring(t, Min(a, b), Max(a, b))

\* the loop over paragraph.elements: the part of each text run between
\* max(textStart, startIndex) and min(textEnd, endIndex), both inclusive
RECURSIVE OverlapElements(_, _, _)
OverlapElements(elems, s, e) ==
    IF elems = <<>> THEN <<>>
    ELSE LET elem == Head(elems)
             textStart == elem.startIndex
             textEnd == elem.endIndex - 1
             overlapStart == Max(textStart, s)
             overlapEnd == Min(textEnd, e)
         IN (IF elem.textRun /\ textStart <= e /\ textEnd >= s
             THEN SubstringSwap(elem.content, overlapStart - textStart,
                                overlapEnd - textStart + 1)
             ELSE <<>>)
            \o OverlapElements(Tail(elems), s, e)

\* the loop over body.content: paragraphs only
RECURSIVE OverlapText(_, _, _)
OverlapText(content, s, e) ==
    IF content = <<>> THEN <<>>
    ELSE (IF Head(content).paragraph
          THEN OverlapElements(Head(content).elements, s, e)
          ELSE <<>>)
         \o OverlapText(Tail(content), s, e)

\* String.prototype.toUpperCase: per character, "a" -> "A"; "I" (U+0130) is
\* its own upper case
UpperChar(c) == IF c = "a" THEN <<"A">> ELSE <<c>>

toUpperCase(t) == Flatten([i \in 1..Len(t) |-> UpperChar(t[i])])

\* \w of the regular expression, over the characters of a body
IsWordChar(c) == c \in {"a", "A"}

\* replace(/\w\S*/g, txt => txt.charAt(0).toUpperCase() + txt.substr(1).toLowerCase())
RECURSIVE TitleCase(_, _)
TitleCase(t, inWord) ==
    IF t = <<>> THEN <<>>
    ELSE IF inWord
         THEN IF IsSpace(Head(t)) THEN <<Head(t)>> \o TitleCase(Tail(t), FALSE)
              ELSE LowerChar(Head(t)) \o TitleCase(Tail(t), TRUE)
         ELSE IF IsWordChar(Head(t)) THEN UpperChar(Head(t)) \o TitleCase(Tail(t), TRUE)
              ELSE <<Head(t)>> \o TitleCase(Tail(t), FALSE)

\* the switch over caseType
TransformCase(t, ct) ==
    CASE ct = "UPPERCASE" -> toUpperCase(t)
      [] ct = "LOWERCASE" -> toLowerCase(t)
      [] ct = "TITLE_CASE" -> TitleCase(t, FALSE)
      [] OTHER -> <<>>

\* ------------------------------ create_bulleted_list, create_numbered_list
\* the first loop: item i (from 0) goes to index + i * (items[i].length + 1)
ListInserts(idx, its) ==
    [k \in 1..Len(its) |->
        InsertText(idx + (k - 1) * (Len(its[k]) + 1), its[k] \o <<"nl">>)]

\* the second loop: the range of item i starts at the same position and is
\* as long as the item
ListStyles(idx, its) ==
    [k \in 1..Len(its) |->
        UpdateParagraphStyle(idx + (k - 1) * (Len(its[k]) + 1),
                             idx + (k - 1) * (Len(its[k]) + 1) + Len(its[k]))]

ListRequests(idx, its) == ListInserts(idx, its) \o ListStyles(idx, its)

\* ----------------------------------------------------------- resize_image
\* objectId: 'image' of the first revision of resize_image: no inline object
\* of a document carries it
HardCodedObjectId == -1

\* a lookup that keeps the last inline object of the range
RECURSIVE MutFindLastInlineObject(_, _, _)
MutFindLastInlineObject(elems, s, e) ==
    IF elems = <<>> THEN NoObjectId
    ELSE LET rest == MutFindLastInlineObject(Tail(elems), s, e)
         IN IF rest # NoObjectId THEN rest
            ELSE IF Head(elems).startIndex >= s /\ Head(elems).endIndex <= e
                    /\ Head(elems).inlineObjectId # NoObjectId
                 THEN Head(elems).inlineObjectId
                 ELSE NoObjectId

\* the loop over paragraph.elements: the first element inside
\* [imageStartIndex, imageEndIndex] that has an inlineObjectElement
RECURSIVE FindInlineObject(_, _, _)
FindInlineObject(elems, s, e) ==
    IF elems = <<>> THEN NoObjectId
    ELSE IF Head(elems).startIndex >= s /\ Head(elems).endIndex <= e
            /\ Head(elems).inlineObjectId # NoObjectId
         THEN Head(elems).inlineObjectId
         ELSE FindInlineObject(Tail(elems), s, e)

\* the loop over body.content: paragraphs only, stop at the first id found
RECURSIVE FindImageObjectId(_, _, _)
FindImageObjectId(content, s, e) ==
    IF content = <<>> THEN NoObjectId
    ELSE LET here == IF Head(content).paragraph
                     THEN FindInlineObject(Head(content).elements, s, e)
                     ELSE NoObjectId
         IN IF here # NoObjectId THEN here
            ELSE FindImageObjectId(Tail(content), s, e)

\* ------------------------------------------------------------------ state
VARIABLES
    doc,                \* the document in the store
    pc,                 \* "idle", "far_scan", "far_update", "std_scan", "done", "crashed"
    tool,               \* the tool that was called
    findText,           \* findText of find_and_replace, searchText of search_text_in_document
    replaceText, matchCase, replaceAll, maxResults,
    documentText,       \* the extracted flat text
    docText,            \* docText / docTextLower
    searchText,         \* searchText of find_and_replace, searchTextLower of the search tool
    index, matches,     \* the scanning loop
    requests, replacementsCount,
    work, applied,      \* the store applying a batch: working copy, requests applied
    result,             \* the ToolResult returned
    query, driveQ,      \* search_documents: its query, the q sent to files.list
    title, heading, body,               \* arguments of the create tools
    imageStartIndex, imageEndIndex,     \* arguments of resize_image
    imageObjectId,      \* the objectId resize_image sends
    documentId,         \* the documentId argument
    textContent,        \* the text read_document returns
    wordStats,          \* wordCount, characterCount, paragraphCount of get_word_count
    error,              \* the error the catch block of the tool caught
    apiCalls,           \* the Docs and Drive API methods the tool has called
    pageSize,           \* the pageSize search_documents sends to files.list
    createdDocs,        \* documents that documents.create has added to the store
    startIndex, endIndex, caseType,     \* arguments of transform_text_case
    textToTransform,    \* the text transform_text_case extracted
    items,              \* items of create_bulleted_list / create_numbered_list
    credentialsFile,    \* credentials.json: "present" or "missing"
    tokenFile,          \* token.json as getAuthClient finds it
    authPc,             \* position of the start-up block inside getAuthClient
    docs, drive,        \* the module-level clients of index.ts
    registered,         \* the tools the server has registered
    connected,          \* server.connect has resolved
    handlerRuns,        \* the tool handlers that ran, with the client they saw
    refreshAttempts,    \* calls of refreshAccessToken
    oauthFlows,         \* calls of authenticateUser
    tokenWrites         \* writes of token.json, by what was written

vars == <<doc, pc, tool, findText, replaceText, matchCase, replaceAll, maxResults,
          documentText, docText, searchText, index, matches, requests,
          replacementsCount, work, applied, result, query, driveQ,
          title, heading, body, imageStartIndex, imageEndIndex, imageObjectId,
          documentId, textContent, wordStats, error, apiCalls,
          pageSize, createdDocs, startIndex, endIndex, caseType, textToTransform,
          items, credentialsFile, tokenFile, authPc, docs, drive, registered,
          connected, handlerRuns, refreshAttempts, oauthFlows, tokenWrites>>

argVars == <<findText, replaceText, matchCase, replaceAll, maxResults>>
textVars == <<documentText, docText, searchText>>
planVars == <<requests, replacementsCount, work, applied>>
driveVars == <<query, driveQ, pageSize>>
createVars == <<title, heading, body>>
imageVars == <<imageStartIndex, imageEndIndex, imageObjectId>>
readVars == <<documentId, textContent, wordStats, error>>
toolVars == <<createVars, imageVars, readVars>>
formatVars == <<startIndex, endIndex, caseType, textToTransform, items>>
startVars == <<credentialsFile, tokenFile, authPc, docs, drive, registered,
               connected, handlerRuns, refreshAttempts, oauthFlows, tokenWrites>>
otherVars == <<formatVars, startVars, createdDocs>>

NoResult ==
    [isError |-> FALSE, success |-> FALSE, replacementsCount |-> 0,
     matches |-> <<>>, totalMatches |-> 0, message |-> "none"]

NoStats == [wordCount |-> 0, characterCount |-> 0, paragraphCount |-> 0]

\* the tools index.ts registers: check_auth_status at once, the document
\* tools by the register*Tools calls
AuthTool == "check_auth_status"
DocumentTools == "document_tools"

\* start-up is over: authentication has resolved, the clients are assigned,
\* every tool is registered, the transport is connected
Started ==
    /\ credentialsFile = "present" /\ tokenFile = "valid"
    /\ authPc = "resolved"
    /\ docs = "client" /\ drive = "client"
    /\ registered = {AuthTool, DocumentTools}
    /\ connected = TRUE
    /\ handlerRuns = <<>>
    /\ refreshAttempts = 0 /\ oauthFlows = 0 /\ tokenWrites = <<>>

\* the state of a server that has handled no call yet, but for the arguments
\* of search_documents
InitRest ==
    /\ createdDocs = 0
    /\ startIndex = 0 /\ endIndex = 0 /\ caseType = "none"
    /\ textToTransform = <<>> /\ items = <<>>
    /\ heading = <<>> /\ body = <<>>
    /\ imageStartIndex = 0 /\ imageEndIndex = 0 /\ imageObjectId = NoObjectId
    /\ textContent = <<>> /\ wordStats = NoStats
    /\ error = NoError
    /\ apiCalls = <<>>
    /\ pc = "idle"
    /\ tool = "none"
    /\ findText = <<>> /\ replaceText = <<>>
    /\ matchCase = FALSE /\ replaceAll = FALSE
    /\ documentText = <<>> /\ docText = <<>> /\ searchText = <<>>
    /\ index = 0 /\ matches = <<>>
    /\ requests = <<>> /\ replacementsCount = 0
    /\ work = <<>> /\ applied = 0
    /\ result = NoResult
    /\ driveQ = <<>> /\ pageSize = 0

\* the state of a started server that has handled no call yet
InitLocals ==
    /\ Started
    /\ InitRest
    /\ maxResults = DefaultMaxResults
    /\ query = <<>>

\* no documentId and no title has arrived
InitArgs == documentId = StringValue(<<>>) /\ title = StringValue(<<>>)

Init == doc \in Docs /\ InitArgs /\ InitLocals

\* -------------------------------------------------------------- results
MutNoMatchIsError ==
    [isError |-> TRUE, success |-> FALSE, replacementsCount |-> 0,
     matches |-> <<>>, totalMatches |-> 0, message |-> "No matches found"]

FarNoMatchResult ==
    [isError |-> FALSE, success |-> FALSE, replacementsCount |-> 0,
     matches |-> <<>>, totalMatches |-> 0, message |-> "No matches found"]

FarSuccessResult(count) ==
    [isError |-> FALSE, success |-> TRUE, replacementsCount |-> count,
     matches |-> <<>>, totalMatches |-> 0, message |-> "Replaced"]

FarErrorResult ==
    [isError |-> TRUE, success |-> FALSE, replacementsCount |-> 0,
     matches |-> <<>>, totalMatches |-> 0, message |-> "Error"]

StdSuccessResult(ms) ==
    [isError |-> FALSE, success |-> TRUE, replacementsCount |-> 0,
     matches |-> ms, totalMatches |-> Len(ms), message |-> "Found"]

SearchDocumentsResult ==
    [isError |-> FALSE, success |-> TRUE, replacementsCount |-> 0,
     matches |-> <<>>, totalMatches |-> 0, message |-> "Found documents"]

ToolErrorResult(msg) ==
    [isError |-> TRUE, success |-> FALSE, replacementsCount |-> 0,
     matches |-> <<>>, totalMatches |-> 0, message |-> msg]

ToolSuccessResult(msg) ==
    [isError |-> FALSE, success |-> TRUE, replacementsCount |-> 0,
     matches |-> <<>>, totalMatches |-> 0, message |-> msg]

\* ------------------------------------------------ find_and_replace: steps
\* the call up to the scanning loop: documents.get, extraction, lower-casing
FarCall(ft, rt, mc, ra) ==
    /\ pc = "idle"
    /\ tool' = "find_and_replace"
    /\ findText' = ft /\ replaceText' = rt /\ matchCase' = mc /\ replaceAll' = ra
    /\ documentText' = ExtractText(BodyContent(doc))
    /\ searchText' = (IF mc THEN ft ELSE toLowerCase(ft))
    /\ docText' = (IF mc THEN documentText' ELSE toLowerCase(documentText'))
    /\ matches' = <<>>
    /\ index' = 0
    /\ apiCalls' = Append(apiCalls, "documents.get")
    /\ pc' = "far_scan"
    /\ UNCHANGED <<otherVars, doc, maxResults, planVars, result, driveVars, toolVars>>

\* one iteration of while ((index = docText.indexOf(searchText, index)) !== -1)
FarScanStep ==
    /\ pc = "far_scan"
    /\ LET found == indexOf(docText, searchText, index)
       IN /\ found # -1
          /\ Len(matches) < HeapLimit
          /\ matches' = Append(matches, found)
          /\ index' = ResumeIndex(found, searchText)
    /\ UNCHANGED <<otherVars, doc, pc, tool, argVars, textVars, planVars, result, driveVars,
                   toolVars, apiCalls>>

\* the loop still finds a match and the array cannot grow: the process dies
FarHeapExhausted ==
    /\ pc = "far_scan"
    /\ indexOf(docText, searchText, index) # -1
    /\ Len(matches) >= HeapLimit
    /\ pc' = "crashed"
    /\ UNCHANGED <<otherVars, doc, tool, argVars, textVars, index, matches, planVars, result,
                   driveVars, toolVars, apiCalls>>

\* the loop ends with no match: the early return
FarNoMatches ==
    /\ pc = "far_scan"
    /\ indexOf(docText, searchText, index) = -1
    /\ Len(matches) = 0
    /\ index' = -1
    /\ result' = FarNoMatchResult
    /\ pc' = "done"
    /\ UNCHANGED <<otherVars, doc, tool, argVars, textVars, matches, planVars, driveVars, toolVars, apiCalls>>

\* the loop ends with matches: sort in place, build the batch, send it
FarPlan ==
    /\ pc = "far_scan"
    /\ indexOf(docText, searchText, index) = -1
    /\ Len(matches) # 0
    /\ index' = -1
    /\ LET sortedMatches == SortDescending(matches)
           plan == PlanLoop(sortedMatches, findText, replaceText, replaceAll, <<>>, 0)
       IN /\ matches' = sortedMatches
          /\ requests' = plan.requests
          /\ replacementsCount' = plan.replacementsCount
    /\ work' = doc
    /\ applied' = 0
    /\ apiCalls' = Append(apiCalls, "documents.batchUpdate")
    /\ pc' = "far_update"
    /\ UNCHANGED <<otherVars, doc, tool, argVars, textVars, result, driveVars, toolVars>>

\* the positions of a tool whose batch is with the store
UpdatePcs == {"far_update", "cfd_update", "ttc_update", "list_update"}

\* the store applies the next request of the batch to its working copy
StoreApplyRequest ==
    /\ pc \in UpdatePcs
    /\ applied < Len(requests)
    /\ RequestValid(work, requests[applied + 1])
    /\ work' = ApplyRequest(work, requests[applied + 1])
    /\ applied' = applied + 1
    /\ UNCHANGED <<otherVars, doc, pc, tool, argVars, textVars, index, matches, requests,
                   replacementsCount, result, driveVars, toolVars, apiCalls>>

\* the store refuses a request: the batch fails as a whole, the catch block returns
StoreRejectBatch ==
    /\ pc \in UpdatePcs
    /\ applied < Len(requests)
    /\ ~RequestValid(work, requests[applied + 1])
    /\ result' = FarErrorResult
    /\ error' = ApiError(400)
    /\ pc' = "done"
    /\ UNCHANGED <<otherVars, doc, tool, argVars, textVars, index, matches, planVars, driveVars,
                   createVars, imageVars, documentId, textContent, wordStats, apiCalls>>

\* the batch is committed and the tool reports its count
FarReturn ==
    /\ pc = "far_update"
    /\ applied = Len(requests)
    /\ doc' = work
    /\ result' = FarSuccessResult(replacementsCount)
    /\ pc' = "done"
    /\ UNCHANGED <<otherVars, tool, argVars, textVars, index, matches, planVars, driveVars,
                   toolVars, apiCalls>>

\* ----------------------------------------- search_text_in_document: steps
StdCall(st, mc, mr) ==
    /\ pc = "idle"
    /\ tool' = "search_text_in_document"
    /\ findText' = st /\ matchCase' = mc /\ maxResults' = mr
    /\ documentText' = ExtractText(BodyContent(doc))
    /\ searchText' = (IF mc THEN st ELSE toLowerCase(st))
    /\ docText' = (IF mc THEN documentText' ELSE toLowerCase(documentText'))
    /\ matches' = <<>>
    /\ index' = 0
    /\ apiCalls' = Append(apiCalls, "documents.get")
    /\ pc' = "std_scan"
    /\ UNCHANGED <<otherVars, doc, replaceText, replaceAll, planVars, result, driveVars, toolVars>>

\* one iteration of the loop: the match is recorded with the length of the
\* searchText argument, and the scan resumes that many positions further
StdScanStep ==
    /\ pc = "std_scan"
    /\ LET found == indexOf(docText, searchText, index)
       IN /\ found # -1
          /\ Len(matches) < ResultLimit(maxResults)
          /\ matches' = Append(matches,
                [startIndex |-> found,
                 endIndex |-> found + Len(findText),
                 context |-> Substring(documentText, Max(0, found - 20),
                                Min(Len(documentText), found + Len(findText) + 20))])
          /\ index' = ResumeIndex(found, findText)
    /\ UNCHANGED <<otherVars, doc, pc, tool, argVars, textVars, planVars, result, driveVars,
                   toolVars, apiCalls>>

StdReturn ==
    /\ pc = "std_scan"
    /\ LET found == indexOf(docText, searchText, index)
       IN /\ (found = -1 \/ Len(matches) >= ResultLimit(maxResults))
          /\ index' = found
    /\ result' = StdSuccessResult(matches)
    /\ pc' = "done"
    /\ UNCHANGED <<otherVars, doc, tool, argVars, textVars, matches, planVars, driveVars, toolVars, apiCalls>>

\* ------------------------------------------------------- search_documents
\* part_006: the query is sanitized before it is interpolated
SearchDocuments(q, mr) ==
    /\ pc = "idle"
    /\ tool' = "search_documents"
    /\ query' = q /\ maxResults' = mr
    /\ driveQ' = SearchQuerySanitized(q)
    /\ pageSize' = mr
    /\ result' = SearchDocumentsResult
    /\ apiCalls' = Append(apiCalls, "files.list")
    /\ pc' = "done"
    /\ UNCHANGED <<otherVars, doc, findText, replaceText, matchCase, replaceAll,
                   textVars, index, matches, planVars, toolVars>>

\* src/tools/read.ts: the query is interpolated as given
SearchDocumentsRaw(q, mr) ==
    /\ pc = "idle"
    /\ tool' = "search_documents_raw"
    /\ query' = q /\ maxResults' = mr
    /\ driveQ' = SearchQueryRaw(q)
    /\ pageSize' = mr
    /\ result' = SearchDocumentsResult
    /\ apiCalls' = Append(apiCalls, "files.list")
    /\ pc' = "done"
    /\ UNCHANGED <<otherVars, doc, findText, replaceText, matchCase, replaceAll,
                   textVars, index, matches, planVars, toolVars>>

\* ---------------------------------------------------------- read_document
\* part_006: validateDocumentId, documents.get, the extraction loop
ReadDocument(id) ==
    /\ pc = "idle"
    /\ tool' = "read_document"
    /\ documentId' = id
    /\ LET thrown == validateDocumentId(id)
       IN IF thrown # NoError
          THEN /\ error' = thrown
               /\ apiCalls' = apiCalls
               /\ textContent' = textContent
               /\ result' = ToolErrorResult("Validation error")
          ELSE /\ apiCalls' = Append(apiCalls, "documents.get")
               /\ IF DocumentExists(id)
                  THEN /\ error' = NoError
                       /\ textContent' = ReadExtractText(BodyContent(doc))
                       /\ result' = ToolSuccessResult("Document")
                  ELSE /\ error' = ApiError(404)
                       /\ textContent' = textContent
                       /\ result' = ToolErrorResult("Document not found")
    /\ pc' = "done"
    /\ UNCHANGED <<otherVars, doc, argVars, textVars, index, matches, planVars, driveVars,
                   createVars, imageVars, wordStats>>

\* src/tools/read.ts: documents.get with the id as given, the extraction loop
ReadDocumentRaw(id) ==
    /\ pc = "idle"
    /\ tool' = "read_document_raw"
    /\ documentId' = id
    /\ apiCalls' = Append(apiCalls, "documents.get")
    /\ IF DocumentExists(id)
       THEN /\ error' = NoError
            /\ textContent' = ReadExtractText(BodyContent(doc))
            /\ result' = ToolSuccessResult("Document")
       ELSE /\ error' = ApiError(404)
            /\ textContent' = textContent
            /\ result' = ToolErrorResult("Document not found")
    /\ pc' = "done"
    /\ UNCHANGED <<otherVars, doc, argVars, textVars, index, matches, planVars, driveVars,
                   createVars, imageVars, wordStats>>

\* the validation function on its own
ValidateDocumentId(v) ==
    /\ pc = "idle"
    /\ tool' = "validateDocumentId"
    /\ documentId' = v
    /\ error' = validateDocumentId(v)
    /\ pc' = "done"
    /\ UNCHANGED <<otherVars, doc, argVars, textVars, index, matches, planVars, result, driveVars,
                   createVars, imageVars, textContent, wordStats, apiCalls>>

\* --------------------------------------------------------- get_word_count
GetWordCount(id) ==
    /\ pc = "idle"
    /\ tool' = "get_word_count"
    /\ documentId' = id
    /\ apiCalls' = Append(apiCalls, "documents.get")
    /\ IF DocumentExists(id)
       THEN /\ documentText' = ExtractText(BodyContent(doc))
            /\ wordStats' = [wordCount |-> WordCount(documentText'),
                             characterCount |-> Len(documentText'),
                             paragraphCount |-> ParagraphCount(BodyContent(doc))]
            /\ error' = NoError
            /\ result' = ToolSuccessResult("Document statistics")
       ELSE /\ documentText' = documentText
            /\ wordStats' = NoStats
            /\ error' = ApiError(404)
            /\ result' = ToolErrorResult("Error")
    /\ pc' = "done"
    /\ UNCHANGED <<otherVars, doc, argVars, docText, searchText, index, matches, planVars,
                   driveVars, createVars, imageVars, textContent>>

\* -------------------------------------------------------- create_document
\* documents.create, then the insert of the initial content when there is one
CreateDocument(t, ic) ==
    /\ pc = "idle"
    /\ tool' = "create_document"
    /\ title' = t
    /\ requests' = (IF ic # <<>> THEN <<InsertText(1, ic)>> ELSE <<>>)
    /\ apiCalls' = apiCalls \o <<"documents.create">>
                      \o (IF ic # <<>> THEN <<"documents.batchUpdate">> ELSE <<>>)
    /\ work' = (IF ic # <<>> THEN ApplyRequest(EmptyDoc, InsertText(1, ic)) ELSE EmptyDoc)
    /\ applied' = Len(requests')
    /\ doc' = work'
    /\ createdDocs' = createdDocs + 1
    /\ error' = NoError
    /\ result' = ToolSuccessResult("Created document")
    /\ pc' = "done"
    /\ UNCHANGED <<formatVars, startVars, argVars, textVars, index, matches, replacementsCount, driveVars,
                   heading, body, imageVars, documentId, textContent, wordStats>>

\* ------------------------------------------------ create_formatted_document
\* documents.create, the requests array, the batch sent to the store
CfdCall(t, h, b) ==
    /\ pc = "idle"
    /\ tool' = "create_formatted_document"
    /\ title' = t /\ heading' = h /\ body' = b
    /\ doc' = EmptyDoc
    /\ createdDocs' = createdDocs + 1
    /\ requests' = FormattedRequests(h, b)
    /\ work' = EmptyDoc
    /\ applied' = 0
    /\ apiCalls' = apiCalls \o <<"documents.create", "documents.batchUpdate">>
    /\ pc' = "cfd_update"
    /\ UNCHANGED <<formatVars, startVars, argVars, textVars, index, matches, replacementsCount, result,
                   driveVars, imageVars, readVars>>

\* the batch is committed and the tool returns the document
CfdReturn ==
    /\ pc = "cfd_update"
    /\ applied = Len(requests)
    /\ doc' = work
    /\ result' = ToolSuccessResult("Created and formatted document")
    /\ pc' = "done"
    /\ UNCHANGED <<otherVars, tool, argVars, textVars, index, matches, planVars, driveVars,
                   toolVars, apiCalls>>

\* ----------------------------------------------------------- resize_image
\* the revision that looks the object up: validation, documents.get, the
\* lookup, then the batch when an image was found
ResizeImage(id, s, e) ==
    /\ pc = "idle"
    /\ tool' = "resize_image"
    /\ documentId' = id /\ imageStartIndex' = s /\ imageEndIndex' = e
    /\ LET thrown == FirstError(<< validateDocumentId(id),
                                   validateIndex(s, "imageStartIndex"),
                                   validateIndex(e, "imageEndIndex") >>)
           found == FindImageObjectId(BodyContent(doc), s, e)
       IN IF thrown # NoError
          THEN /\ error' = thrown
               /\ apiCalls' = apiCalls
               /\ imageObjectId' = imageObjectId
               /\ result' = ToolErrorResult("Validation error")
          ELSE IF ~DocumentExists(id)
          THEN /\ error' = ApiError(404)
               /\ apiCalls' = Append(apiCalls, "documents.get")
               /\ imageObjectId' = imageObjectId
               /\ result' = ToolErrorResult("Error")
          ELSE IF found = NoObjectId
          THEN /\ error' = NoError
               /\ apiCalls' = Append(apiCalls, "documents.get")
               /\ imageObjectId' = NoObjectId
               /\ result' = ToolErrorResult("No image found at specified range")
          ELSE /\ error' = NoError
               /\ apiCalls' = apiCalls \o <<"documents.get", "documents.batchUpdate">>
               /\ imageObjectId' = found
               /\ result' = ToolSuccessResult("Image resized")
    /\ pc' = "done"
    /\ UNCHANGED <<otherVars, doc, argVars, textVars, index, matches, planVars, driveVars,
                   createVars, textContent, wordStats>>

\* the first revision: the batch is sent with objectId 'image', which the
\* store does not know
ResizeImageLegacy(id, s, e) ==
    /\ pc = "idle"
    /\ tool' = "resize_image_legacy"
    /\ documentId' = id /\ imageStartIndex' = s /\ imageEndIndex' = e
    /\ imageObjectId' = HardCodedObjectId
    /\ apiCalls' = Append(apiCalls, "documents.batchUpdate")
    /\ error' = ApiError(IF DocumentExists(id) THEN 400 ELSE 404)
    /\ result' = ToolErrorResult("Error")
    /\ pc' = "done"
    /\ UNCHANGED <<otherVars, doc, argVars, textVars, index, matches, planVars, driveVars,
                   createVars, textContent, wordStats>>

\* ---------------------------------------------------- transform_text_case
\* documents.get, the extraction, the switch, the batch sent to the store
TransformTextCase(s, e, ct) ==
    /\ pc = "idle"
    /\ tool' = "transform_text_case"
    /\ startIndex' = s /\ endIndex' = e /\ caseType' = ct
    /\ textToTransform' = OverlapText(BodyContent(doc), s, e)
    /\ requests' = << DeleteContentRange(s, e),
                      InsertText(s, TransformCase(textToTransform', ct)) >>
    /\ work' = doc
    /\ applied' = 0
    /\ apiCalls' = apiCalls \o <<"documents.get", "documents.batchUpdate">>
    /\ pc' = "ttc_update"
    /\ UNCHANGED <<doc, argVars, textVars, index, matches, replacementsCount, result,
                   driveVars, toolVars, items, startVars, createdDocs>>

\* the batch is committed and the tool returns
TtcReturn ==
    /\ pc = "ttc_update"
    /\ applied = Len(requests)
    /\ doc' = work
    /\ result' = ToolSuccessResult("Text transformed")
    /\ pc' = "done"
    /\ UNCHANGED <<otherVars, tool, argVars, textVars, index, matches, planVars,
                   driveVars, toolVars, apiCalls>>

\* ------------------------------ create_bulleted_list, create_numbered_list
\* the two loops over items, the batch sent to the store
CreateBulletedList(idx, its) ==
    /\ pc = "idle"
    /\ tool' = "create_bulleted_list"
    /\ index' = idx /\ items' = its
    /\ requests' = ListRequests(idx, its)
    /\ work' = doc
    /\ applied' = 0
    /\ apiCalls' = Append(apiCalls, "documents.batchUpdate")
    /\ pc' = "list_update"
    /\ UNCHANGED <<doc, argVars, textVars, matches, replacementsCount, result,
                   driveVars, toolVars, startIndex, endIndex, caseType,
                   textToTransform, startVars, createdDocs>>

CreateNumberedList(idx, its) ==
    /\ pc = "idle"
    /\ tool' = "create_numbered_list"
    /\ index' = idx /\ items' = its
    /\ requests' = ListRequests(idx, its)
    /\ work' = doc
    /\ applied' = 0
    /\ apiCalls' = Append(apiCalls, "documents.batchUpdate")
    /\ pc' = "list_update"
    /\ UNCHANGED <<doc, argVars, textVars, matches, replacementsCount, result,
                   driveVars, toolVars, startIndex, endIndex, caseType,
                   textToTransform, startVars, createdDocs>>

\* the batch is committed and the tool reports the number of items
ListReturn ==
    /\ pc = "list_update"
    /\ applied = Len(requests)
    /\ doc' = work
    /\ result' = ToolSuccessResult("Created list")
    /\ pc' = "done"
    /\ UNCHANGED <<otherVars, tool, argVars, textVars, index, matches, planVars,
                   driveVars, toolVars, apiCalls>>

\* ------------------------------------------------ start-up (index.ts, auth.ts)
\* everything but the start-up state
toolState == <<doc, pc, tool, argVars, textVars, index, matches, planVars, result,
               driveVars, toolVars, apiCalls, formatVars, createdDocs>>

\* a reading of token.json that takes an unparsable file for a stored token
MutAfterTokenRead(tf) == IF tf = "missing" THEN "oauth" ELSE "get_access_token"

\* readFile(TOKEN_PATH) and JSON.parse inside the outer try: a missing or
\* unparsable file goes to the outer catch, a token to getAccessToken
AfterTokenRead(tf) ==
    IF tf \in {"missing", "unparsable"} THEN "oauth" ELSE "get_access_token"

\* a check_auth_status that lets the TypeError of an undefined client escape
MutCheckAuthStatusOutcome(client, resolves) ==
    IF client = "undefined" THEN "thrown"
    ELSE IF resolves THEN "authenticated" ELSE "not_authenticated"

\* check_auth_status: drive.about.get inside try; the catch block returns
\* authenticated: false, also for the TypeError of an undefined drive
CheckAuthStatusOutcome(client, resolves) ==
    IF client # "undefined" /\ resolves THEN "authenticated" ELSE "not_authenticated"

\* JSON.parse(await fs.readFile(CREDENTIALS_PATH)) outside every try
LoadCredentials ==
    /\ authPc = "start"
    /\ authPc' = (IF credentialsFile = "missing" THEN "failed" ELSE "read_token")
    /\ UNCHANGED <<toolState, credentialsFile, tokenFile, docs, drive, registered,
                   connected, handlerRuns, refreshAttempts, oauthFlows, tokenWrites>>

\* the token is read and parsed; the outer catch calls authenticateUser
ReadToken ==
    /\ authPc = "read_token"
    /\ IF AfterTokenRead(tokenFile) = "oauth"
       THEN authPc' = "oauth_wait" /\ oauthFlows' = oauthFlows + 1
       ELSE authPc' = "get_access_token" /\ oauthFlows' = oauthFlows
    /\ UNCHANGED <<toolState, credentialsFile, tokenFile, docs, drive, registered,
                   connected, handlerRuns, refreshAttempts, tokenWrites>>

\* await oauth2Client.getAccessToken(): resolves for a valid token
GetAccessToken ==
    /\ authPc = "get_access_token"
    /\ authPc' = (IF tokenFile = "valid" THEN "authenticated" ELSE "refresh")
    /\ UNCHANGED <<toolState, credentialsFile, tokenFile, docs, drive, registered,
                   connected, handlerRuns, refreshAttempts, oauthFlows, tokenWrites>>

\* await oauth2Client.refreshAccessToken(); when it rejects the inner catch
\* throws and the outer catch calls authenticateUser
RefreshAccessToken(ok) ==
    /\ authPc = "refresh"
    /\ refreshAttempts' = refreshAttempts + 1
    /\ IF ok
       THEN authPc' = "write_refreshed" /\ oauthFlows' = oauthFlows
       ELSE authPc' = "oauth_wait" /\ oauthFlows' = oauthFlows + 1
    /\ UNCHANGED <<toolState, credentialsFile, tokenFile, docs, drive, registered,
                   connected, handlerRuns, tokenWrites>>

\* await fs.writeFile(TOKEN_PATH, credentials) after the refresh; a failed
\* write is caught like a failed refresh
WriteRefreshed(ok) ==
    /\ authPc = "write_refreshed"
    /\ IF ok
       THEN /\ tokenWrites' = Append(tokenWrites, "refreshed")
            /\ authPc' = "authenticated" /\ oauthFlows' = oauthFlows
       ELSE /\ tokenWrites' = tokenWrites
            /\ authPc' = "oauth_wait" /\ oauthFlows' = oauthFlows + 1
    /\ UNCHANGED <<toolState, credentialsFile, tokenFile, docs, drive, registered,
                   connected, handlerRuns, refreshAttempts>>

\* authenticateUser: the callback server cannot listen, the promise rejects
OAuthListenError ==
    /\ authPc = "oauth_wait"
    /\ authPc' = "failed"
    /\ UNCHANGED <<toolState, credentialsFile, tokenFile, docs, drive, registered,
                   connected, handlerRuns, refreshAttempts, oauthFlows, tokenWrites>>

\* authenticateUser: the browser reaches /oauth2callback, the promise resolves
OAuthCallback ==
    /\ authPc = "oauth_wait"
    /\ authPc' = "exchange"
    /\ UNCHANGED <<toolState, credentialsFile, tokenFile, docs, drive, registered,
                   connected, handlerRuns, refreshAttempts, oauthFlows, tokenWrites>>

\* await oauth2Client.getToken(code)
ExchangeCode(ok) ==
    /\ authPc = "exchange"
    /\ authPc' = (IF ok THEN "write_tokens" ELSE "failed")
    /\ UNCHANGED <<toolState, credentialsFile, tokenFile, docs, drive, registered,
                   connected, handlerRuns, refreshAttempts, oauthFlows, tokenWrites>>

\* await fs.writeFile(TOKEN_PATH, tokens) after the exchange
WriteTokens(ok) ==
    /\ authPc = "write_tokens"
    /\ IF ok
       THEN tokenWrites' = Append(tokenWrites, "exchanged") /\ authPc' = "authenticated"
       ELSE tokenWrites' = tokenWrites /\ authPc' = "failed"
    /\ UNCHANGED <<toolState, credentialsFile, tokenFile, docs, drive, registered,
                   connected, handlerRuns, refreshAttempts, oauthFlows>>

\* getAuthClient has resolved: the clients are assigned and the register*Tools
\* calls run, all in one turn of the event loop
AssignAndRegister ==
    /\ authPc = "authenticated"
    /\ docs' = "client" /\ drive' = "client"
    /\ registered' = registered \cup {DocumentTools}
    /\ authPc' = "resolved"
    /\ UNCHANGED <<toolState, credentialsFile, tokenFile, connected, handlerRuns,
                   refreshAttempts, oauthFlows, tokenWrites>>

\* main: await server.connect(transport)
Connect ==
    /\ ~connected
    /\ connected' = TRUE
    /\ UNCHANGED <<toolState, credentialsFile, tokenFile, authPc, docs, drive,
                   registered, handlerRuns, refreshAttempts, oauthFlows, tokenWrites>>

\* a client calls check_auth_status; drive.about.get resolves or rejects
CallCheckAuthStatus(resolves) ==
    /\ connected
    /\ AuthTool \in registered
    /\ Len(handlerRuns) < MaxCalls
    /\ handlerRuns' = Append(handlerRuns,
            [tool |-> AuthTool, client |-> drive,
             outcome |-> CheckAuthStatusOutcome(drive, resolves)])
    /\ UNCHANGED <<toolState, credentialsFile, tokenFile, authPc, docs, drive,
                   registered, connected, refreshAttempts, oauthFlows, tokenWrites>>

\* a client calls a document tool: the handler uses the docs it was registered with
CallDocumentTool ==
    /\ connected
    /\ DocumentTools \in registered
    /\ Len(handlerRuns) < MaxCalls
    /\ handlerRuns' = Append(handlerRuns,
            [tool |-> DocumentTools, client |-> docs, outcome |-> "returned"])
    /\ UNCHANGED <<toolState, credentialsFile, tokenFile, authPc, docs, drive,
                   registered, connected, refreshAttempts, oauthFlows, tokenWrites>>

\* ------------------------------------------------------- another client
\* the edits another client of the Docs API can make to a document: insert
\* one character, delete one cell
ClientEdits(d) ==
    {InsertText(i, <<"A">>) : i \in 1..(Len(d) - 1)}
    \cup {DeleteContentRange(i, i + 1) : i \in 1..(Len(d) - 2)}

\* another client's batchUpdate is applied after the documents.get of
\* find_and_replace has resolved and before its batchUpdate is sent; the
\* handler holds no revision of the document and sends no writeControl
OtherClientEdit(r) ==
    /\ pc = "far_scan"
    /\ documentText = ExtractText(BodyContent(doc))
    /\ RequestValid(doc, r)
    /\ doc' = ApplyRequest(doc, r)
    /\ UNCHANGED <<otherVars, pc, tool, argVars, textVars, index, matches, planVars,
                   result, driveVars, toolVars, apiCalls>>

\* ------------------------------------------------------ rejected API calls
\* HTTP status codes a Docs or Drive call rejects with
ApiFaultCodes == {403, 404, 500}

\* a handler that calls documents.get a second time when the first call rejects
MutFarGetRetried(ft, rt, mc, ra, code) ==
    /\ pc = "idle"
    /\ tool' = "find_and_replace"
    /\ findText' = ft /\ replaceText' = rt /\ matchCase' = mc /\ replaceAll' = ra
    /\ apiCalls' = apiCalls \o <<"documents.get", "documents.get">>
    /\ error' = ApiError(code)
    /\ result' = FarErrorResult
    /\ pc' = "done"
    /\ UNCHANGED <<otherVars, doc, maxResults, textVars, index, matches, planVars,
                   driveVars, createVars, imageVars, documentId, textContent, wordStats>>

\* find_and_replace whose documents.get rejects: the catch block returns
FarGetRejected(ft, rt, mc, ra, code) ==
    /\ pc = "idle"
    /\ tool' = "find_and_replace"
    /\ findText' = ft /\ replaceText' = rt /\ matchCase' = mc /\ replaceAll' = ra
    /\ apiCalls' = Append(apiCalls, "documents.get")
    /\ error' = ApiError(code)
    /\ result' = FarErrorResult
    /\ pc' = "done"
    /\ UNCHANGED <<otherVars, doc, maxResults, textVars, index, matches, planVars,
                   driveVars, createVars, imageVars, documentId, textContent, wordStats>>

\* documents.batchUpdate rejects for a reason outside the requests: nothing
\* is applied, the catch block returns
BatchUpdateRejected(code) ==
    /\ pc \in UpdatePcs
    /\ applied = 0
    /\ result' = FarErrorResult
    /\ error' = ApiError(code)
    /\ pc' = "done"
    /\ UNCHANGED <<otherVars, doc, tool, argVars, textVars, index, matches, planVars,
                   driveVars, createVars, imageVars, documentId, textContent,
                   wordStats, apiCalls>>

\* a mapping that reports every rejection as a missing document
MutReadErrorMessage(err) == "Document not found"

\* the catch block of read_document: error.code === 404, else the message
ReadErrorMessage(err) ==
    IF err.code = 404 THEN "Document not found" ELSE "Error reading document"

\* read_document (part_006) whose documents.get rejects
ReadDocumentRejected(id, code) ==
    /\ pc = "idle"
    /\ validateDocumentId(id) = NoError
    /\ tool' = "read_document"
    /\ documentId' = id
    /\ apiCalls' = Append(apiCalls, "documents.get")
    /\ error' = ApiError(code)
    /\ result' = ToolErrorResult(ReadErrorMessage(error'))
    /\ pc' = "done"
    /\ UNCHANGED <<otherVars, doc, argVars, textVars, index, matches, planVars,
                   driveVars, createVars, imageVars, textContent, wordStats>>

\* create_document whose documents.create rejects: no document is made
CreateDocumentCreateRejected(t, ic, code) ==
    /\ pc = "idle"
    /\ tool' = "create_document"
    /\ title' = t
    /\ apiCalls' = Append(apiCalls, "documents.create")
    /\ error' = ApiError(code)
    /\ result' = ToolErrorResult("Error creating document")
    /\ pc' = "done"
    /\ UNCHANGED <<otherVars, doc, argVars, textVars, index, matches, planVars,
                   driveVars, heading, body, imageVars, documentId, textContent,
                   wordStats>>

\* create_document whose batchUpdate rejects after documents.create has
\* resolved: the catch block returns, the created document stays as it is
CreateDocumentInsertRejected(t, ic, code) ==
    /\ pc = "idle"
    /\ ic # <<>>
    /\ tool' = "create_document"
    /\ title' = t
    /\ requests' = <<InsertText(1, ic)>>
    /\ apiCalls' = apiCalls \o <<"documents.create", "documents.batchUpdate">>
    /\ work' = EmptyDoc
    /\ applied' = 0
    /\ doc' = EmptyDoc
    /\ createdDocs' = createdDocs + 1
    /\ error' = ApiError(code)
    /\ result' = ToolErrorResult("Error creating document")
    /\ pc' = "done"
    /\ UNCHANGED <<formatVars, startVars, argVars, textVars, index, matches,
                   replacementsCount, driveVars, heading, body, imageVars,
                   documentId, textContent, wordStats>>

\* search_documents (part_006) whose files.list rejects
SearchDocumentsRejected(q, mr, code) ==
    /\ pc = "idle"
    /\ tool' = "search_documents"
    /\ query' = q /\ maxResults' = mr
    /\ driveQ' = SearchQuerySanitized(q)
    /\ pageSize' = mr
    /\ apiCalls' = Append(apiCalls, "files.list")
    /\ error' = ApiError(code)
    /\ result' = ToolErrorResult("Search error")
    /\ pc' = "done"
    /\ UNCHANGED <<otherVars, doc, findText, replaceText, matchCase, replaceAll,
                   textVars, index, matches, planVars, createVars, imageVars,
                   documentId, textContent, wordStats>>

\* ---------------------------------------------------------- specification
\* queries over "a" and "I", and the upper-case query "A"
FindTexts == SeqsUpTo(FindChars, MaxFind) \cup {<<"A">>}
\* the empty replacement and the replacements of full length
ReplaceTexts == {<<>>} \cup [1..MaxReplace -> ReplaceChars]
Queries == SeqsUpTo(QueryChars, MaxQuery)
IdStrings == {StringValue(r) : r \in SeqsUpTo([ch : IdChars, n : IdRunLengths], MaxRuns)}
IdValues ==
    IdStrings \cup {OtherValue(t) : t \in {"undefined", "null", "number", "object"}}
Titles ==
    {StringValue(r) : r \in SeqsUpTo([ch : TitleChars, n : TitleRunLengths], MaxRuns)}
\* the id of the stored document and an id no document has
SomeIds == {StringValue(StoredId), StringValue(<<[ch |-> "a", n |-> 1]>>)}
SomeTitles == {StringValue(<<>>), StringValue(<<[ch |-> "t", n |-> 1]>>)}
InitialContents == {<<>>, <<"a">>}
Headings == SeqsUpTo({"h"}, MaxHeading)
BodyTexts == SeqsUpTo(BodyTextChars, MaxBodyText)
ImageIndexes == (0 - 1)..(MaxBody + 2)
ExtractDocs == {<<"SB">> \o b \o <<"nl">> : b \in SeqsUpTo(ExtractCells, MaxBody)}
ImageDocs == {<<"SB">> \o b \o <<"nl">> : b \in SeqsUpTo(ImageCells, MaxBody)}

Next ==
    \/ \E ft \in FindTexts, mc \in BOOLEAN, ra \in BOOLEAN :
          \E rt \in ReplaceTexts \cup {ft} : FarCall(ft, rt, mc, ra)
    \/ FarScanStep
    \/ FarHeapExhausted
    \/ FarNoMatches
    \/ FarPlan
    \/ StoreApplyRequest
    \/ StoreRejectBatch
    \/ FarReturn
    \/ \E st \in FindTexts, mc \in BOOLEAN, mr \in 0..MaxResultsArg : StdCall(st, mc, mr)
    \/ StdScanStep
    \/ StdReturn
    \/ \E id \in SomeIds : GetWordCount(id)

Spec == Init /\ [][Next]_vars

\* the text tools and read_document over documents that hold text runs
\* without content
ExtractInit == doc \in ExtractDocs /\ InitArgs /\ InitLocals

ExtractNext ==
    \/ Next
    \/ ReadDocument(StringValue(StoredId))
    \/ ReadDocumentRaw(StringValue(StoredId))

ExtractSpec == ExtractInit /\ [][ExtractNext]_vars

\* validation: a request has arrived with a documentId or with a title of the
\* bounded sets, and a tool that takes this argument is called with it
ValidateInit ==
    /\ doc = <<"SB", "a", "nl">>
    /\ \/ documentId \in IdValues /\ title = StringValue(<<>>)
       \/ documentId = StringValue(<<>>) /\ title \in Titles
    /\ InitLocals

ValidateNext ==
    \/ ValidateDocumentId(documentId)
    \/ documentId.type = "string" /\ ReadDocument(documentId)
    \/ documentId.type = "string" /\ ReadDocumentRaw(documentId)
    \/ documentId.type = "string" /\ GetWordCount(documentId)
    \/ \E ic \in InitialContents : CreateDocument(title, ic)

ValidateSpec == ValidateInit /\ [][ValidateNext]_vars

\* create_formatted_document and the store that applies its batch
CreateInit == doc = EmptyDoc /\ InitArgs /\ InitLocals

CreateNext ==
    \/ \E t \in SomeTitles, h \in Headings, b \in BodyTexts : CfdCall(t, h, b)
    \/ StoreApplyRequest
    \/ StoreRejectBatch
    \/ CfdReturn

CreateSpec == CreateInit /\ [][CreateNext]_vars

\* resize_image, both revisions, over documents with inline objects
ImageInit == doc \in ImageDocs /\ InitArgs /\ InitLocals

ImageNext ==
    \/ \E id \in SomeIds, s \in ImageIndexes, e \in ImageIndexes : ResizeImage(id, s, e)
    \/ \E id \in SomeIds, s \in ImageIndexes, e \in ImageIndexes :
          ResizeImageLegacy(id, s, e)

ImageSpec == ImageInit /\ [][ImageNext]_vars

\* search_documents reads no document: its calls are explored from one store
\* maxResults as the handler receives it: the schema default or a number
PageSizes == {DefaultMaxResults} \cup 0..MaxResultsArg

\* a search_documents request has arrived with its query and maxResults
DriveInit ==
    /\ doc = <<"SB", "nl">>
    /\ InitArgs /\ Started /\ InitRest
    /\ query \in Queries
    /\ maxResults \in PageSizes

DriveNext ==
    \/ SearchDocuments(query, maxResults)
    \/ SearchDocumentsRaw(query, maxResults)

DriveSpec == DriveInit /\ [][DriveNext]_vars

\* the format tools and the store that applies their batches
CaseTypes == {"UPPERCASE", "LOWERCASE", "TITLE_CASE"}
FormatDocs == {<<"SB">> \o b \o <<"nl">> : b \in SeqsUpTo({"a", "I", " "}, MaxBody)}
FormatIndexes == 0..(MaxBody + 2)
ItemTexts == SeqsUpTo({"x"}, MaxItemLen)
ItemLists == SeqsUpTo(ItemTexts, MaxItems)

FormatInit == doc \in FormatDocs /\ InitArgs /\ InitLocals

FormatNext ==
    \/ \E s \in FormatIndexes, e \in FormatIndexes, ct \in CaseTypes :
          TransformTextCase(s, e, ct)
    \/ TtcReturn
    \/ \E idx \in FormatIndexes, its \in ItemLists : CreateBulletedList(idx, its)
    \/ \E idx \in FormatIndexes, its \in ItemLists : CreateNumberedList(idx, its)
    \/ ListReturn
    \/ StoreApplyRequest
    \/ StoreRejectBatch

FormatSpec == FormatInit /\ [][FormatNext]_vars

\* start-up: the authentication block, main, and a client calling tools
StartInit ==
    /\ doc = EmptyDoc
    /\ InitArgs /\ InitRest
    /\ maxResults = DefaultMaxResults /\ query = <<>>
    /\ credentialsFile \in {"present", "missing"}
    /\ tokenFile \in {"missing", "unparsable", "valid", "invalid"}
    /\ authPc = "start"
    /\ docs = "undefined" /\ drive = "undefined"
    /\ registered = {AuthTool}
    /\ connected = FALSE
    /\ handlerRuns = <<>>
    /\ refreshAttempts = 0 /\ oauthFlows = 0 /\ tokenWrites = <<>>

StartNext ==
    \/ LoadCredentials
    \/ ReadToken
    \/ GetAccessToken
    \/ \E ok \in BOOLEAN : RefreshAccessToken(ok)
    \/ \E ok \in BOOLEAN : WriteRefreshed(ok)
    \/ OAuthListenError
    \/ OAuthCallback
    \/ \E ok \in BOOLEAN : ExchangeCode(ok)
    \/ \E ok \in BOOLEAN : WriteTokens(ok)
    \/ AssignAndRegister
    \/ Connect
    \/ \E resolves \in BOOLEAN : CallCheckAuthStatus(resolves)
    \/ CallDocumentTool

StartSpec == StartInit /\ [][StartNext]_vars

\* find_and_replace with another client editing the document in between
ConcurrentNext ==
    \/ \E ft \in FindTexts, mc \in BOOLEAN, ra \in BOOLEAN :
          FarCall(ft, <<"b">>, mc, ra)
    \/ FarScanStep
    \/ FarHeapExhausted
    \/ FarNoMatches
    \/ \E r \in ClientEdits(doc) : OtherClientEdit(r)
    \/ FarPlan
    \/ StoreApplyRequest
    \/ StoreRejectBatch
    \/ FarReturn

ConcurrentSpec == Init /\ [][ConcurrentNext]_vars

\* the tools with API calls that may reject: find_and_replace with its store,
\* read_document, create_document, search_documents
FaultQueries == {<<>>, <<"x">>}

FaultNext ==
    \/ \E ft \in FindTexts, ra \in BOOLEAN : FarCall(ft, <<>>, TRUE, ra)
    \/ \E ft \in FindTexts, ra \in BOOLEAN, code \in ApiFaultCodes :
          FarGetRejected(ft, <<>>, TRUE, ra, code)
    \/ FarScanStep
    \/ FarHeapExhausted
    \/ FarNoMatches
    \/ FarPlan
    \/ StoreApplyRequest
    \/ StoreRejectBatch
    \/ \E code \in ApiFaultCodes : BatchUpdateRejected(code)
    \/ FarReturn
    \/ \E id \in SomeIds : ReadDocument(id)
    \/ \E id \in SomeIds, code \in ApiFaultCodes : ReadDocumentRejected(id, code)
    \/ \E t \in SomeTitles, ic \in InitialContents : CreateDocument(t, ic)
    \/ \E t \in SomeTitles, ic \in InitialContents, code \in ApiFaultCodes :
          CreateDocumentCreateRejected(t, ic, code)
    \/ \E t \in SomeTitles, ic \in InitialContents, code \in ApiFaultCodes :
          CreateDocumentInsertRejected(t, ic, code)
    \/ \E q \in FaultQueries : SearchDocuments(q, DefaultMaxResults)
    \/ \E q \in FaultQueries, code \in ApiFaultCodes :
          SearchDocumentsRejected(q, DefaultMaxResults, code)

FaultSpec == Init /\ [][FaultNext]_vars

\* ================================================================ claims
TextTools == {"find_and_replace", "search_text_in_document"}

\* the match ranges [s, e) the tool has computed, as flat-text offsets
MatchRanges ==
    IF tool = "find_and_replace"
    THEN [i \in 1..Len(matches) |->
            [s |-> matches[i], e |-> matches[i] + Len(findText)]]
    ELSE [i \in 1..Len(matches) |->
            [s |-> matches[i].startIndex, e |-> matches[i].endIndex]]

\* the run table of the document: each text run with its flat and document range
RECURSIVE RunTable(_, _)
RunTable(elems, flat) ==
    IF elems = <<>> THEN <<>>
    ELSE IF Head(elems).textRun
         THEN <<[flatStart |-> flat,
                 flatEnd |-> flat + Len(ContentOrEmpty(Head(elems).content)),
                 docStart |-> Head(elems).startIndex,
                 docEnd |-> Head(elems).endIndex]>>
              \o RunTable(Tail(elems), flat + Len(ContentOrEmpty(Head(elems).content)))
         ELSE RunTable(Tail(elems), flat)

Runs == RunTable(BodyContent(doc)[2].elements, 0)

\* the query occurs in the text, compared as the tool's matchCase asks
Occurs ==
    LET hay == IF matchCase THEN documentText ELSE toLowerCase(documentText)
        needle == IF matchCase THEN findText ELSE toLowerCase(findText)
    IN \E k \in 0..(Len(hay) - Len(needle)) :
          SubSeq(hay, k + 1, k + Len(needle)) = needle

\* C1: with matchCase = false every match range [s, e) of find_and_replace and
\* of search_text_in_document indexes the original text:
\* lower(T[s..e)) = lower(Q) for a non-empty query Q.
C1_CaseInsensitiveOffsets ==
    (tool \in TextTools /\ ~matchCase /\ findText # <<>>)
    => \A i \in 1..Len(matches) :
          toLowerCase(Substring(documentText, MatchRanges[i].s, MatchRanges[i].e))
             = toLowerCase(findText)

\* C2: with replaceAll = false and at least two matches, find_and_replace plans
\* the delete and the insert of the first match in document order only, and
\* replacementsCount = 1.
C2_SingleReplaceFirst ==
    (tool = "find_and_replace" /\ pc \in {"far_update", "done"}
       /\ ~replaceAll /\ Len(matches) >= 2)
    => LET m1 == CHOOSE m \in {matches[i] : i \in 1..Len(matches)} :
                    \A i \in 1..Len(matches) : m <= matches[i]
       IN /\ requests = << DeleteContentRange(m1, m1 + Len(findText)),
                           InsertText(m1, replaceText) >>
          /\ replacementsCount = 1

\* C3: for a planned match at flat offsets [fs, fe) inside a text run with flat
\* start rs and document start ds, the Delete of find_and_replace has
\* startIndex = ds + (fs - rs) and endIndex = startIndex + (fe - fs).
C3_DocumentIndexMapping ==
    (tool = "find_and_replace" /\ pc = "far_update")
    => \A k \in 1..replacementsCount :
          LET fs == matches[k]
              fe == matches[k] + Len(findText)
              del == requests[2 * k - 1]
          IN \A n \in 1..Len(Runs) :
                (Runs[n].flatStart <= fs /\ fe <= Runs[n].flatEnd)
                => /\ del.startIndex = Runs[n].docStart + (fs - Runs[n].flatStart)
                   /\ del.endIndex = del.startIndex + (fe - fs)

\* C4: with an empty findText / searchText both tools fail with an
\* invalid-query error: no match is recorded and no edit is issued.
C4_EmptyQueryRejected ==
    (tool \in TextTools /\ findText = <<>>)
    => /\ matches = <<>>
       /\ requests = <<>>
       /\ pc # "crashed"
       /\ (pc = "done" => result.isError)

\* C5: for every text and every query, the empty one included, the scanning
\* loops end and the tool returns a result: a call that has not returned can
\* always take its next step.
C5_ScanTerminates == pc = "done" \/ ENABLED Next

C7_NoIndexShift ==
    (pc = "far_update" /\ applied < Len(requests)
       /\ requests[applied + 1].kind = "deleteContentRange")
    => LET r == requests[applied + 1]
       IN /\ Substring(work, r.startIndex, r.endIndex)
               = Substring(doc, r.startIndex, r.endIndex)
          /\ SubSeq(work, 1, r.startIndex) = SubSeq(doc, 1, r.startIndex)

C7_Witness ==
    /\ pc = "far_update"
    /\ applied = 2 /\ Len(requests) >= 4
    /\ Len(replaceText) > Len(findText)
    /\ RequestValid(work, requests[3])

\* C8: matches are found left to right and do not overlap: in scan order,
\* match[i].end <= match[i+1].start, for either matchCase, in both tools.
C8_NonOverlap ==
    (tool = "search_text_in_document" \/ (tool = "find_and_replace" /\ pc = "far_scan"))
    => \A i \in 1..(Len(matches) - 1) :
          /\ MatchRanges[i].s <= MatchRanges[i].e
          /\ MatchRanges[i].e <= MatchRanges[i + 1].s

C8_Witness ==
    /\ tool = "search_text_in_document" /\ pc = "done"
    /\ matchCase /\ findText # <<>>
    /\ Len(matches) >= 2
    /\ MatchRanges[1].e = MatchRanges[2].s

\* the position of the quote that closes the Drive string literal whose content
\* starts at position i: a backslash escapes the character after it
RECURSIVE LiteralClose(_, _)
LiteralClose(q, i) ==
    IF i > Len(q) THEN 0
    ELSE IF q[i] = "\\" THEN LiteralClose(q, i + 2)
    ELSE IF q[i] = "'" THEN i
    ELSE LiteralClose(q, i + 1)

\* C9: whatever the query, the text search_documents puts into
\* name contains '...' stays inside the literal: no quote of the user text
\* closes the literal before the quote the tool appends at the end.
C9_QuoteStaysInside ==
    (tool = "search_documents" /\ Len(driveQ) > Len(BaseFilter))
    => LiteralClose(driveQ, Len(BaseFilter) + 3) \in {0, Len(driveQ)}

\* C10: when the query does not occur in the document, find_and_replace plans
\* nothing, sends no batch, reports replacementsCount = 0 without isError, and
\* search_text_in_document returns no match, totalMatches = 0 and no error.
C10_ZeroMatchesNotError ==
    (tool \in TextTools /\ pc = "done" /\ ~Occurs)
    => /\ ~result.isError
       /\ result.replacementsCount = 0
       /\ result.matches = <<>>
       /\ result.totalMatches = 0
       /\ result.message = (IF tool = "find_and_replace" THEN "No matches found"
                            ELSE "Found")
       /\ requests = <<>> /\ work = <<>> /\ applied = 0

C10_Witness ==
    /\ tool = "find_and_replace" /\ pc = "done"
    /\ ~Occurs
    /\ Len(documentText) > 1
    /\ findText # <<>>

\* the matches find_and_replace may plan: all of them with replaceAll, else one
EligibleMatches == IF replaceAll THEN Len(matches) ELSE Min(1, Len(matches))

\* the flat range [fs, fe) starts in one text run and ends in a later one, and
\* the two runs are not adjacent in document-index space
Unmappable(fs, fe) ==
    \E n \in 1..Len(Runs), m \in 1..Len(Runs) :
        /\ n < m
        /\ Runs[n].flatStart <= fs /\ fs < Runs[n].flatEnd
        /\ Runs[m].flatStart < fe /\ fe <= Runs[m].flatEnd
        /\ Runs[n].docEnd < Runs[m].docStart

\* C11: for every call of find_and_replace the replacements planned and
\* counted, plus the matches reported as skipped (the tool reports none), are
\* the matches eligible for planning; a call that succeeds has applied one
\* Delete/Insert pair per eligible match and reports that count.
C11_SkipAccounting ==
    (tool = "find_and_replace" /\ pc \in {"far_update", "done"} /\ matches # <<>>)
    => /\ replacementsCount = EligibleMatches
       /\ Len(requests) = 2 * EligibleMatches
       /\ (pc = "done" /\ ~result.isError)
             => /\ result.replacementsCount = EligibleMatches
                /\ applied = 2 * EligibleMatches

C11_Witness ==
    /\ tool = "find_and_replace" /\ pc = "done"
    /\ ~result.isError
    /\ replaceAll /\ Len(matches) >= 2
    /\ result.replacementsCount = Len(matches)

\* C12: find_and_replace never plans a Delete/Insert pair for a match whose flat
\* range spans two text runs separated by a non-text element: such a match is
\* left out of the batch.
C12_UnmappableNotPlanned ==
    (tool = "find_and_replace" /\ pc = "far_update")
    => \A k \in 1..replacementsCount :
          ~Unmappable(matches[k], matches[k] + Len(findText))

\* C13: find_and_replace with replaceAll = true and replaceText = findText,
\* once its batch is applied, leaves the flat text as it was: the text
\* extracted from the document afterwards is the text extracted before.
C13_RoundTrip ==
    (tool = "find_and_replace" /\ pc = "done" /\ replaceAll /\ replaceText = findText)
    => ExtractText(BodyContent(doc)) = documentText

\* the cells of the document at the index range [s, e), compared as the
\* tool's matchCase asks
DocRange(s, e) ==
    IF matchCase THEN Substring(doc, s, e) ELSE toLowerCase(Substring(doc, s, e))

\* C14: every match search_text_in_document returns carries document indices:
\* the document cells at [startIndex, endIndex) are the matched occurrence of
\* the query.
C14_PositionsAreDocumentIndices ==
    (tool = "search_text_in_document" /\ pc = "done" /\ findText # <<>>)
    => \A i \in 1..Len(result.matches) :
          DocRange(result.matches[i].startIndex, result.matches[i].endIndex)
             = (IF matchCase THEN findText ELSE toLowerCase(findText))

\* the contents of the text runs of the document, in document order; an
\* element without a text run and a text run without content give nothing
RunContents == SelectSeq(doc, IsText)

\* C15: the flat text is the concatenation, in document order, of the content
\* of the text runs of the paragraphs; elements without a text run and text
\* runs without content add nothing; alike in read_document, find_and_replace,
\* search_text_in_document and get_word_count.
C15_TextExtraction ==
    /\ (tool \in TextTools /\ pc \in {"far_scan", "std_scan"})
          => documentText = RunContents
    /\ (tool = "get_word_count" /\ pc = "done" /\ ~result.isError)
          => /\ documentText = RunContents
             /\ wordStats.characterCount = Len(RunContents)
    /\ (tool = "read_document" /\ pc = "done" /\ ~result.isError)
          => textContent = RunContents

\* the API method m is among the calls the tool has made
Called(m) == \E k \in 1..Len(apiCalls) : apiCalls[k] = m

\* the call carries an input the validation functions refuse
InvalidInput ==
    \/ tool \in {"read_document", "get_word_count"}
          /\ validateDocumentId(documentId) # NoError
    \/ tool = "create_document" /\ validateTitle(title) # NoError

\* C16: a tool of create.ts, read.ts or search.ts that is called with an
\* invalid documentId or an empty or over-long title returns a validation
\* error and has called no method of the Docs or Drive API.
C16_ValidationBeforeApi ==
    (pc = "done" /\ InvalidInput)
    => /\ apiCalls = <<>>
       /\ result.isError
       /\ error.name = "ValidationError"

HasUpdateTextStyle == \E k \in 1..Len(requests) : requests[k].kind = "updateTextStyle"

\* C17: the batch of create_formatted_document holds the bold-first-word
\* updateTextStyle exactly when the body has a non-whitespace character and a
\* space; with an empty body or a body without a space there is none and the
\* tool returns without an error.
C17_BoldFirstWord ==
    (tool = "create_formatted_document")
    => /\ HasUpdateTextStyle
            <=> /\ \E i \in 1..Len(body) : ~IsSpace(body[i])
                /\ \E i \in 1..Len(body) : body[i] = " "
       /\ (pc = "done" /\ \A i \in 1..Len(body) : body[i] # " ")
             => /\ ~HasUpdateTextStyle
                /\ ~result.isError
                /\ applied = Len(requests)
                /\ ExtractText(BodyContent(doc))
                      = heading \o <<"nl">> \o body \o <<"nl", "nl">>

C17_Witness ==
    /\ tool = "create_formatted_document" /\ pc = "done"
    /\ body # <<>> /\ Trim(body) # <<>>
    /\ \A i \in 1..Len(body) : body[i] # " "
    /\ ~result.isError
    /\ Len(requests) = 3

\* the inline objects of the document that lie inside the requested range
ObjectsInRange ==
    {i \in 1..(Len(doc) - 1) :
        doc[i + 1] = "OBJ" /\ imageStartIndex <= i /\ i + 1 <= imageEndIndex}

WellFormedId(v) ==
    /\ v.type = "string"
    /\ StrLen(v.runs) >= 10 /\ StrLen(v.runs) <= 100
    /\ \A k \in 1..Len(v.runs) : v.runs[k].ch \in {"a", "Z", "7", "_", "-"}

\* C19: validateDocumentId returns for exactly the strings of length 10 to
\* 100 over A-Z, a-z, 0-9, "_" and "-"; for every other value it throws a
\* ValidationError whose field is documentId.
C19_ValidateDocumentId ==
    (tool = "validateDocumentId" /\ pc = "done")
    => /\ (error = NoError) <=> WellFormedId(documentId)
       /\ (error # NoError)
             => error.name = "ValidationError" /\ error.field = "documentId"

C19_Witness ==
    /\ tool = "validateDocumentId" /\ pc = "done"
    /\ error = NoError
    /\ StrLen(documentId.runs) = 100
    /\ Len(documentId.runs) = 2

\* C20: search_text_in_document and get_word_count send no batchUpdate and
\* leave the document as it was read; search_text_in_document returns at most
\* maxResults matches, for every maxResults >= 0, and they are the first
\* matches in document order.
C20_ReadOnlyAndCap ==
    /\ (tool \in {"search_text_in_document", "get_word_count"})
          => /\ ~Called("documents.batchUpdate")
             /\ requests = <<>> /\ work = <<>> /\ applied = 0
             /\ (pc = "done" /\ ~result.isError)
                   => ExtractText(BodyContent(doc)) = documentText
    /\ (tool = "search_text_in_document" /\ pc = "done")
          => /\ Len(result.matches) <= maxResults
             /\ (findText # <<>>)
                   => \A i \in 1..(Len(result.matches) - 1) :
                         result.matches[i].startIndex < result.matches[i + 1].startIndex
             /\ (result.matches # <<>>)
                   => result.matches[1].startIndex = indexOf(docText, searchText, 0)

\* C21: a find_and_replace call issues one documents.get and, after it, at
\* most one documents.batchUpdate; the batch holds the whole plan (a delete
\* and an insert per counted replacement) and is committed or refused as a
\* whole; a rejected documents.get is followed by no further call.
C21_CallSequence ==
    (tool = "find_and_replace")
    => /\ apiCalls \in {<<"documents.get">>, <<"documents.get", "documents.batchUpdate">>}
       /\ (Len(apiCalls) = 2)
             => /\ pc \in {"far_update", "done"}
                /\ replacementsCount >= 1
                /\ Len(requests) = 2 * replacementsCount
       /\ (pc = "done" /\ result.isError)
             => /\ ExtractText(BodyContent(doc)) = documentText \/ Len(apiCalls) = 1
                /\ (Len(apiCalls) = 1 => requests = <<>>)
       /\ (pc = "done" /\ result.success)
             => /\ Len(apiCalls) = 2
                /\ applied = Len(requests)
                /\ doc = work

C21_Witness ==
    /\ tool = "find_and_replace" /\ pc = "done"
    /\ apiCalls = <<"documents.get", "documents.batchUpdate">>
    /\ result.success /\ replacementsCount >= 2

\* the texts of the catch blocks that interpolate error.message
ErrorMessageTexts ==
    {"Error", "Error reading document", "Error creating document", "Search error"}

\* C22: a tool whose API call rejected has returned (it did not throw) a
\* result with isError set whose text carries the message of the error;
\* read_document answers code 404 with the "Document not found" text; and a
\* tool whose documents.get rejected has called no documents.batchUpdate.
C22_ErrorEnvelope ==
    (tool # "none" /\ error.name = "Error")
    => /\ pc = "done"
       /\ result.isError /\ ~result.success
       /\ IF tool = "read_document" /\ error.code = 404
          THEN result.message = "Document not found"
          ELSE result.message \in ErrorMessageTexts
       /\ (apiCalls[Len(apiCalls)] = "documents.get")
             => \A i \in 1..Len(apiCalls) : apiCalls[i] # "documents.batchUpdate"

C22_Witness ==
    /\ tool = "read_document" /\ pc = "done"
    /\ error.name = "Error" /\ error.code = 500
    /\ result.isError /\ result.message = "Error reading document"

\* C23: the q that search_documents sends starts with the mimeType and trashed
\* filter; the name clause follows exactly when the query, trimmed, is not
\* empty and the query is not "*"; pageSize is the maxResults it received.
C23_QueryComposition ==
    (tool \in {"search_documents", "search_documents_raw"} /\ pc = "done")
    => /\ SubSeq(driveQ, 1, 1) = BaseFilter
       /\ (Len(driveQ) > 1) <=> (Trim(query) # <<>> /\ query # <<"*">>)
       /\ (Len(driveQ) > 1) => (driveQ[2] = NameClause /\ driveQ[3] = "'")
       /\ pageSize = maxResults

C23_Witness ==
    /\ tool = "search_documents" /\ pc = "done"
    /\ query = <<" ", "*">>
    /\ Len(driveQ) > 1
    /\ pageSize = MaxResultsArg

\* C28: when create_document has returned an error result, documents.create
\* has left no document in the store.
C28_AllOrNothing ==
    (tool = "create_document" /\ pc = "done" /\ result.isError) => createdDocs = 0

\* C24: the batch of create_formatted_document is well formed: every style
\* range is non-empty, each request is valid for the document as the requests
\* before it left it, the heading style range ends with the newline of the
\* heading, and the committed document reads heading, newline, body, newline
\* from index 1; also for a body that starts with a space.
C24_WellFormedBatch ==
    (tool = "create_formatted_document")
    => /\ \A i \in 1..Len(requests) :
             requests[i].kind # "insertText"
                => requests[i].startIndex < requests[i].endIndex
       /\ (pc = "cfd_update" /\ applied < Len(requests))
             => RequestValid(work, requests[applied + 1])
       /\ requests[2] = UpdateParagraphStyle(1, Len(heading) + 2)
       /\ (pc = "done")
             => /\ ~result.isError
                /\ doc = <<"SB">> \o heading \o <<"nl">> \o body \o <<"nl", "nl">>

\* C25: transform_text_case inserts as many characters as it deletes: the
\* extracted text is the cells startIndex up to, not including, endIndex, so
\* the batch leaves the length of the document and every cell outside the
\* range as they were, also when text goes on after endIndex.
C25_LengthAndSurroundings ==
    (tool = "transform_text_case" /\ pc = "ttc_update" /\ applied = Len(requests))
    => /\ textToTransform = SubSeq(doc, startIndex + 1, endIndex)
       /\ Len(requests[2].text) = endIndex - startIndex
       /\ Len(work) = Len(doc)
       /\ SubSeq(work, 1, startIndex) = SubSeq(doc, 1, startIndex)
       /\ SubSeq(work, endIndex + 1, Len(work)) = SubSeq(doc, endIndex + 1, Len(doc))

\* where item k of a list belongs: after the items before it and their newlines
RECURSIVE ItemStart(_, _, _)
ItemStart(idx, its, k) ==
    IF k = 1 THEN idx ELSE ItemStart(idx, its, k - 1) + Len(its[k - 1]) + 1

\* items[0], newline, ..., items[n-1], newline
RECURSIVE ListBlock(_)
ListBlock(its) ==
    IF its = <<>> THEN <<>> ELSE Head(its) \o <<"nl">> \o ListBlock(Tail(its))

\* C26: the requests of create_bulleted_list and create_numbered_list put
\* item i directly after the newline of item i-1, the document gains the
\* items with their newlines as one block at index, and each style range is
\* exactly its item; for items of equal and of unequal lengths.
C26_ListPositions ==
    (tool \in {"create_bulleted_list", "create_numbered_list"})
    => /\ \A k \in 1..Len(items) :
             /\ requests[k].startIndex = ItemStart(index, items, k)
             /\ requests[Len(items) + k].startIndex = ItemStart(index, items, k)
             /\ requests[Len(items) + k].endIndex
                   = ItemStart(index, items, k) + Len(items[k])
       /\ (pc = "list_update" /\ applied = Len(requests))
             => work = Substring(doc, 0, index) \o ListBlock(items)
                         \o Substring(doc, index, Len(doc))

\* the cells [s, e) of d read as findText, compared as matchCase asks
HoldsFindText(d, s, e) ==
    /\ 1 <= s /\ e <= Len(d)
    /\ IF matchCase THEN SubSeq(d, s + 1, e) = findText
       ELSE toLowerCase(SubSeq(d, s + 1, e)) = toLowerCase(findText)

\* C27: when another client has edited the document between the
\* documents.get and the documents.batchUpdate of find_and_replace, every
\* range the batch deletes holds an occurrence of findText in the document
\* the batch is applied to.
C27_StaleSnapshot ==
    (tool = "find_and_replace" /\ pc = "far_update" /\ applied = 0
        /\ findText # <<>>
        /\ documentText # ExtractText(BodyContent(work)))
    => \A i \in 1..Len(requests) :
          requests[i].kind = "deleteContentRange"
             => HoldsFindText(work, requests[i].startIndex, requests[i].endIndex)

\* C29: the document tools are registered only once getAuthClient has
\* resolved and docs and drive are assigned, so no document tool handler
\* has run with an undefined client, however authentication and
\* server.connect interleave; check_auth_status called before that returns
\* authenticated = false and does not throw; after a failed authentication
\* check_auth_status is the only tool and can still be called.
C29_StartupOrdering ==
    /\ AuthTool \in registered
    /\ (DocumentTools \in registered)
          => (authPc = "resolved" /\ docs = "client" /\ drive = "client")
    /\ \A i \in 1..Len(handlerRuns) :
          /\ (handlerRuns[i].tool = DocumentTools) => handlerRuns[i].client = "client"
          /\ (handlerRuns[i].tool = AuthTool /\ handlerRuns[i].client = "undefined")
                => handlerRuns[i].outcome = "not_authenticated"
          /\ handlerRuns[i].outcome # "thrown"
    /\ (authPc = "failed")
          => /\ registered = {AuthTool}
             /\ (connected /\ Len(handlerRuns) < MaxCalls)
                   => ENABLED CallCheckAuthStatus(TRUE)

C29_Witness ==
    /\ Len(handlerRuns) = 2
    /\ handlerRuns[1].tool = AuthTool /\ handlerRuns[1].client = "undefined"
    /\ handlerRuns[1].outcome = "not_authenticated"
    /\ handlerRuns[2].tool = DocumentTools /\ handlerRuns[2].client = "client"

\* what the state of getAuthClient says about the calls made so far
TokenLifecycle ==
    /\ refreshAttempts <= 1 /\ oauthFlows <= 1
    /\ tokenWrites \in {<<>>, <<"refreshed">>, <<"exchanged">>}
    /\ (tokenFile = "valid")
          => (refreshAttempts = 0 /\ oauthFlows = 0 /\ tokenWrites = <<>>)
    /\ (tokenFile = "invalid"
          /\ authPc \notin {"start", "failed", "read_token", "get_access_token", "refresh"})
          => refreshAttempts = 1
    /\ (tokenFile = "invalid" /\ authPc \in {"authenticated", "resolved"}
          /\ oauthFlows = 0)
          => tokenWrites = <<"refreshed">>
    /\ (tokenFile \in {"missing", "unparsable"})
          => /\ refreshAttempts = 0
             /\ (authPc \notin {"start", "read_token"} /\ credentialsFile = "present")
                   => oauthFlows = 1
    /\ (authPc \in {"oauth_wait", "exchange", "write_tokens"}) => oauthFlows = 1
    /\ (tokenWrites = <<"refreshed">>) => (refreshAttempts = 1 /\ oauthFlows = 0)
    /\ (tokenWrites = <<"exchanged">>) => oauthFlows = 1

\* C30: getAuthClient with a valid stored token returns without a write of
\* token.json and without the OAuth flow; with an invalid one it tries one
\* refresh and, when it returns by that way, has written the refreshed
\* credentials; with a missing or unparsable file, or after a failed
\* refresh, it starts the OAuth flow once; token.json is written only
\* after a refresh or a code exchange that has succeeded.
C30_TokenLifecycle ==
    /\ []TokenLifecycle
    /\ [][(tokenWrites' # tokenWrites)
             => /\ authPc \in {"write_refreshed", "write_tokens"}
                /\ authPc' = "authenticated"]_vars
    /\ [][(refreshAttempts' # refreshAttempts) => authPc = "refresh"]_vars

C30_Witness ==
    /\ tokenFile = "invalid" /\ authPc = "resolved"
    /\ refreshAttempts = 1 /\ oauthFlows = 0 /\ tokenWrites = <<"refreshed">>

====
